---- MODULE Spec2Model ----
(***************************************************************************)
(* Chesster: the chess rules engine (services/chessEngine.js) and the      *)
(* match state machine kept in the `games` / `moves` tables                *)
(* (models/gameModel.js).                                                  *)
(*                                                                         *)
(* A board is a function 0..7 -> 0..7 -> piece letter, "." for empty,      *)
(* upper case = White, lower case = Black, row 0 = Black's back rank.      *)
(* A square is a pair <<row, col>>.                                        *)
(***************************************************************************)
EXTENDS Integers, Sequences, FiniteSets, TLC

\* ------------------------------------------------------------------ bounds
\* joinGame requests in flight at one time
MaxJoining == 2

\* the clock value up to which a match is explored from its start at clock 1;
\* every join completion, accepted move and forfeit reads a later clock value
MaxClock == 4

\* resolve calls sent for one match
MaxCalls == 2

\* makeMove and forfeitTurn requests in flight at one time
MaxInflight == 2

\* ------------------------------------------------------- pieces and squares
\* JavaScript null for the string-valued columns
NULL == "null"

BoardSize == 8
Rows == 0 .. (BoardSize - 1)
Cols == 0 .. (BoardSize - 1)
Squares == { <<r, c>> : r \in Rows, c \in Cols }

WhitePieces == {"P", "N", "B", "R", "Q", "K"}
BlackPieces == {"p", "n", "b", "r", "q", "k"}

\* String.prototype.toLowerCase on the one-letter cell values
toLowerCase(p) ==
  CASE p = "P" -> "p" [] p = "N" -> "n" [] p = "B" -> "b"
    [] p = "R" -> "r" [] p = "Q" -> "q" [] p = "K" -> "k"
    [] OTHER -> p

\* String.prototype.toUpperCase on the one-letter cell values
toUpperCase(p) ==
  CASE p = "p" -> "P" [] p = "n" -> "N" [] p = "b" -> "B"
    [] p = "r" -> "R" [] p = "q" -> "Q" [] p = "k" -> "K"
    [] OTHER -> p

Abs(x) == IF x < 0 THEN -x ELSE x

Opposite(color) == IF color = "white" THEN "black" ELSE "white"

\* a row given as a tuple, re-indexed 0..7
Row(t) == [c \in Cols |-> t[c + 1]]

initBoard ==
  [r \in Rows |->
     CASE r = 0 -> Row(<<"r", "n", "b", "q", "k", "b", "n", "r">>)
       [] r = 1 -> Row(<<"p", "p", "p", "p", "p", "p", "p", "p">>)
       [] r = 6 -> Row(<<"P", "P", "P", "P", "P", "P", "P", "P">>)
       [] r = 7 -> Row(<<"R", "N", "B", "Q", "K", "B", "N", "R">>)
       [] OTHER -> Row(<<".", ".", ".", ".", ".", ".", ".", ".">>)]

\* the last_move column: null, or {from, to, piece}
NullMove == [from |-> <<0, 0>>, to |-> <<0, 0>>, piece |-> NULL]

\* ------------------------------------------------------------ chess engine
RECURSIVE PathClearFrom(_, _, _, _, _, _)
PathClearFrom(board, row, col, to, rowStep, colStep) ==
  IF row # to[1] \/ col # to[2]
    THEN IF board[row][col] # "."
           THEN FALSE
           ELSE PathClearFrom(board, row + rowStep, col + colStep, to, rowStep, colStep)
    ELSE TRUE

isPathClear(board, from, to) ==
  LET rowStep == IF to[1] > from[1] THEN 1 ELSE IF to[1] < from[1] THEN -1 ELSE 0
      colStep == IF to[2] > from[2] THEN 1 ELSE IF to[2] < from[2] THEN -1 ELSE 0
  IN  PathClearFrom(board, from[1] + rowStep, from[2] + colStep, to, rowStep, colStep)

isValidRookMove(board, from, to) ==
  IF from[1] # to[1] /\ from[2] # to[2] THEN FALSE ELSE isPathClear(board, from, to)

isValidKnightMove(from, to) ==
  LET rowDiff == Abs(to[1] - from[1])
      colDiff == Abs(to[2] - from[2])
  IN  (rowDiff = 2 /\ colDiff = 1) \/ (rowDiff = 1 /\ colDiff = 2)

isValidBishopMove(board, from, to) ==
  IF Abs(to[1] - from[1]) # Abs(to[2] - from[2]) THEN FALSE ELSE isPathClear(board, from, to)

isValidQueenMove(board, from, to) ==
  isValidRookMove(board, from, to) \/ isValidBishopMove(board, from, to)

isValidKingMove(from, to) ==
  Abs(to[1] - from[1]) <= 1 /\ Abs(to[2] - from[2]) <= 1

\* result {valid, enPassant}; enPassant undefined in the source reads as FALSE
isValidPawnMove(board, from, to, turn, lastMove) ==
  LET direction == IF turn = "white" THEN -1 ELSE 1
      startRow  == IF turn = "white" THEN 6 ELSE 1
      rowDiff   == to[1] - from[1]
      colDiff   == Abs(to[2] - from[2])
  IN  IF colDiff = 0
        THEN IF rowDiff = direction /\ board[to[1]][to[2]] = "."
               THEN [valid |-> TRUE, enPassant |-> FALSE]
             ELSE IF /\ from[1] = startRow
                     /\ rowDiff = 2 * direction
                     /\ board[to[1]][to[2]] = "."
                     /\ board[from[1] + direction][from[2]] = "."
               THEN [valid |-> TRUE, enPassant |-> FALSE]
             ELSE [valid |-> FALSE, enPassant |-> FALSE]
      ELSE IF colDiff = 1 /\ rowDiff = direction
        THEN IF board[to[1]][to[2]] # "."
               THEN [valid |-> TRUE, enPassant |-> FALSE]
             ELSE IF /\ lastMove # NullMove
                     /\ toLowerCase(lastMove.piece) = "p"
                     /\ Abs(lastMove.to[1] - lastMove.from[1]) = 2
                     /\ lastMove.to[1] = from[1]
                     /\ lastMove.to[2] = to[2]
               THEN [valid |-> TRUE, enPassant |-> TRUE]
             ELSE [valid |-> FALSE, enPassant |-> FALSE]
      ELSE [valid |-> FALSE, enPassant |-> FALSE]

\* ChessEngine.makeMove: the board after the move (promotion NULL = none given)
makeMove(board, from, to, promotion, isEnPassant) ==
  LET piece == board[from[1]][from[2]]
      b1 == IF isEnPassant
              THEN [board EXCEPT ![from[1]][to[2]] = "."]
              ELSE board
      b2 == [b1 EXCEPT ![to[1]][to[2]] = b1[from[1]][from[2]]]
      b3 == [b2 EXCEPT ![from[1]][from[2]] = "."]
  IN  IF toLowerCase(piece) = "p" /\ (to[1] = 0 \/ to[1] = 7) /\ promotion # NULL
        THEN [b3 EXCEPT ![to[1]][to[2]] =
                IF piece = toUpperCase(piece) THEN toUpperCase(promotion)
                                              ELSE toLowerCase(promotion)]
        ELSE b3

\* the first square, in row-major order, holding kingPiece; <<>> when absent
kingPosOf(board, kingPiece) ==
  LET found == { s \in Squares : board[s[1]][s[2]] = kingPiece }
  IN  IF found = {} THEN <<>>
      ELSE CHOOSE s \in found :
             \A t \in found : s[1] < t[1] \/ (s[1] = t[1] /\ s[2] <= t[2])

canAttack(board, r, c, kingPos) ==
  LET piece == board[r][c]
      pieceLower == toLowerCase(piece)
  IN  CASE pieceLower = "p" ->
             LET dir == IF piece = toUpperCase(piece) THEN -1 ELSE 1
             IN  kingPos[1] = r + dir /\ Abs(kingPos[2] - c) = 1
        [] pieceLower = "n" -> isValidKnightMove(<<r, c>>, kingPos)
        [] pieceLower = "b" -> isValidBishopMove(board, <<r, c>>, kingPos)
        [] pieceLower = "r" -> isValidRookMove(board, <<r, c>>, kingPos)
        [] pieceLower = "q" -> isValidQueenMove(board, <<r, c>>, kingPos)
        [] pieceLower = "k" -> isValidKingMove(<<r, c>>, kingPos)
        [] OTHER -> FALSE

isKingInCheck(board, color) ==
  LET kingPiece == IF color = "white" THEN "K" ELSE "k"
      kingPos == kingPosOf(board, kingPiece)
  IN  IF kingPos = <<>> THEN FALSE
      ELSE \E r \in Rows, c \in Cols :
             LET piece == board[r][c]
             IN  /\ piece # "."
                 /\ \/ color = "white" /\ piece = toLowerCase(piece)
                    \/ color = "black" /\ piece = toUpperCase(piece)
                 /\ canAttack(board, r, c, kingPos)

\* isValidMove without the test of the mover's own king on the resulting board
isValidMove_NoSelfCheck(board, from, to, turn, lastMove) ==
  LET piece == board[from[1]][from[2]]
      target == board[to[1]][to[2]]
      pieceLower == toLowerCase(piece)
      pawnResult == isValidPawnMove(board, from, to, turn, lastMove)
      isValid == CASE pieceLower = "p" -> pawnResult.valid
                   [] pieceLower = "r" -> isValidRookMove(board, from, to)
                   [] pieceLower = "n" -> isValidKnightMove(from, to)
                   [] pieceLower = "b" -> isValidBishopMove(board, from, to)
                   [] pieceLower = "q" -> isValidQueenMove(board, from, to)
                   [] pieceLower = "k" -> isValidKingMove(from, to)
                   [] OTHER -> FALSE
      isEnPassant == pieceLower = "p" /\ pawnResult.enPassant
  IN  IF piece = "."
        THEN [valid |-> FALSE, reason |-> "No piece at source", enPassant |-> FALSE]
      ELSE IF \/ turn = "white" /\ piece = toLowerCase(piece)
              \/ turn = "black" /\ piece = toUpperCase(piece)
        THEN [valid |-> FALSE, reason |-> "Not your piece", enPassant |-> FALSE]
      ELSE IF /\ target # "."
              /\ \/ turn = "white" /\ target = toUpperCase(target)
                 \/ turn = "black" /\ target = toLowerCase(target)
        THEN [valid |-> FALSE, reason |-> "Cannot capture own piece", enPassant |-> FALSE]
      ELSE IF pieceLower \notin BlackPieces
        THEN [valid |-> FALSE, reason |-> "Unknown piece", enPassant |-> FALSE]
      ELSE IF ~isValid
        THEN [valid |-> FALSE, reason |-> "Illegal move for piece", enPassant |-> FALSE]
      ELSE [valid |-> TRUE, reason |-> NULL, enPassant |-> isEnPassant]

\* isValidMove without the test of the destination holding the mover's piece
isValidMove_NoOwnTarget(board, from, to, turn, lastMove) ==
  LET piece == board[from[1]][from[2]]
      pieceLower == toLowerCase(piece)
      pawnResult == isValidPawnMove(board, from, to, turn, lastMove)
      isValid == CASE pieceLower = "p" -> pawnResult.valid
                   [] pieceLower = "r" -> isValidRookMove(board, from, to)
                   [] pieceLower = "n" -> isValidKnightMove(from, to)
                   [] pieceLower = "b" -> isValidBishopMove(board, from, to)
                   [] pieceLower = "q" -> isValidQueenMove(board, from, to)
                   [] pieceLower = "k" -> isValidKingMove(from, to)
                   [] OTHER -> FALSE
      isEnPassant == pieceLower = "p" /\ pawnResult.enPassant
      testBoard == makeMove(board, from, to, NULL, isEnPassant)
  IN  IF piece = "."
        THEN [valid |-> FALSE, reason |-> "No piece at source", enPassant |-> FALSE]
      ELSE IF \/ turn = "white" /\ piece = toLowerCase(piece)
              \/ turn = "black" /\ piece = toUpperCase(piece)
        THEN [valid |-> FALSE, reason |-> "Not your piece", enPassant |-> FALSE]
      ELSE IF pieceLower \notin BlackPieces
        THEN [valid |-> FALSE, reason |-> "Unknown piece", enPassant |-> FALSE]
      ELSE IF ~isValid
        THEN [valid |-> FALSE, reason |-> "Illegal move for piece", enPassant |-> FALSE]
      ELSE IF isKingInCheck(testBoard, turn)
        THEN [valid |-> FALSE, reason |-> "Move leaves king in check", enPassant |-> FALSE]
      ELSE [valid |-> TRUE, reason |-> NULL, enPassant |-> isEnPassant]

\* result {valid, reason, enPassant}
isValidMove(board, from, to, turn, lastMove) ==
  LET piece == board[from[1]][from[2]]
      target == board[to[1]][to[2]]
      pieceLower == toLowerCase(piece)
      pawnResult == isValidPawnMove(board, from, to, turn, lastMove)
      isValid == CASE pieceLower = "p" -> pawnResult.valid
                   [] pieceLower = "r" -> isValidRookMove(board, from, to)
                   [] pieceLower = "n" -> isValidKnightMove(from, to)
                   [] pieceLower = "b" -> isValidBishopMove(board, from, to)
                   [] pieceLower = "q" -> isValidQueenMove(board, from, to)
                   [] pieceLower = "k" -> isValidKingMove(from, to)
                   [] OTHER -> FALSE
      isEnPassant == pieceLower = "p" /\ pawnResult.enPassant
      testBoard == makeMove(board, from, to, NULL, isEnPassant)
  IN  IF piece = "."
        THEN [valid |-> FALSE, reason |-> "No piece at source", enPassant |-> FALSE]
      ELSE IF \/ turn = "white" /\ piece = toLowerCase(piece)
              \/ turn = "black" /\ piece = toUpperCase(piece)
        THEN [valid |-> FALSE, reason |-> "Not your piece", enPassant |-> FALSE]
      ELSE IF /\ target # "."
              /\ \/ turn = "white" /\ target = toUpperCase(target)
                 \/ turn = "black" /\ target = toLowerCase(target)
        THEN [valid |-> FALSE, reason |-> "Cannot capture own piece", enPassant |-> FALSE]
      ELSE IF pieceLower \notin BlackPieces
        THEN [valid |-> FALSE, reason |-> "Unknown piece", enPassant |-> FALSE]
      ELSE IF ~isValid
        THEN [valid |-> FALSE, reason |-> "Illegal move for piece", enPassant |-> FALSE]
      ELSE IF isKingInCheck(testBoard, turn)
        THEN [valid |-> FALSE, reason |-> "Move leaves king in check", enPassant |-> FALSE]
      ELSE [valid |-> TRUE, reason |-> NULL, enPassant |-> isEnPassant]

hasLegalMoves(board, color, lastMove) ==
  \E r \in Rows, c \in Cols :
    LET piece == board[r][c]
    IN  /\ piece # "."
        /\ \/ color = "white" /\ piece = toUpperCase(piece)
           \/ color = "black" /\ piece = toLowerCase(piece)
        /\ \E tr \in Rows, tc \in Cols :
             isValidMove(board, <<r, c>>, <<tr, tc>>, color, lastMove).valid

isCheckmate(board, color, lastMove) ==
  isKingInCheck(board, color) /\ ~hasLegalMoves(board, color, lastMove)

isStalemate(board, color, lastMove) ==
  ~isKingInCheck(board, color) /\ ~hasLegalMoves(board, color, lastMove)

\* -------------------------------------------------------- the stored match
\* wallet identities offered to createGame / joinGame (NULL = none supplied)
Addresses == {"0xA", "0xB"}
\* wager amounts offered to createGame (0 is falsy: a free game)
Wagers == {0, 1}

\* promotion pieces a player can pick (PROMOTION_PIECES)
PromotionPieces == {"q", "r", "b", "n"}

NoError == "ok"

VARIABLES
  game,        \* the row of table `games`
  moves,       \* the rows of table `moves` of this game, in insertion order
  now,         \* the wall clock read by new Date()
  response,    \* the outcome of the last request: [op, error]
  settling,    \* winners of the _settleEscrow calls dispatched and not yet run
  joining,     \* joinGame requests that have read the row and not yet written
  inflight,    \* other requests that have read and not yet written
  timers,      \* TimerService: the entry of this game, and its expiry handler
  chain,       \* the match as the escrow contract holds it
  calls        \* the transactions settlement has sent, oldest first

\* what the match lifecycle leaves alone
aux == <<joining, inflight, timers, chain, calls>>

vars == <<game, moves, now, response, settling, joining, inflight, timers,
          chain, calls>>

\* TimerService.timers has no entry for the game and no expiry handler runs
NoTimer == [entry |-> FALSE, handler |-> FALSE]

\* the account that deployed the escrow contract
COORDINATOR == "0xC0"

\* the accounts that send transactions and receive payments
Accounts == Addresses \cup {COORDINATOR}

\* ChessterEscrow: the admin cut in basis points
ADMIN_BPS == 500
BPS_DENOMINATOR == 10000

\* the refund timeout of one hour, in units of the block clock
Hour == 2

\* on-chain MatchStatus values
PENDING == 0
ACTIVE == 1
RESOLVED == 2
REFUNDED == 3

\* matches[gameCode] before createMatch: the zero struct
NoMatch ==
  [createdAt |-> 0, status |-> PENDING, player1 |-> NULL, player2 |-> NULL,
   winner |-> NULL, wagerAmount |-> 0, totalStaked |-> 0,
   stakedAmount |-> [a \in Accounts |-> 0],
   paid |-> [a \in Accounts |-> 0]]

\* GameModel.createGame: the inserted row (column defaults from schema.sql)
createGame(wagerAmount, playerWhiteAddress) ==
  [ board_state          |-> initBoard,
    current_turn         |-> "white",
    status               |-> "waiting",
    player_white         |-> FALSE,
    player_black         |-> FALSE,
    player_white_address |-> playerWhiteAddress,
    player_black_address |-> NULL,
    move_count           |-> 0,
    winner               |-> NULL,
    in_check             |-> FALSE,
    last_move            |-> NullMove,
    draw_offer           |-> NULL,
    captured_white       |-> <<>>,
    captured_black       |-> <<>>,
    turn_started_at      |-> 0,
    wager_amount         |-> wagerAmount,
    escrow_status        |-> IF wagerAmount # 0 THEN "pending" ELSE NULL,
    escrow_resolve_tx    |-> NULL ]

\* ------------------------------------------------------------- joinGame
joinGameError_NoStatusCheck(g, playerColor, playerAddress) ==
  LET otherColorAddress == IF playerColor = "white" THEN g.player_black_address
                                                    ELSE g.player_white_address
      own == IF playerColor = "white" THEN g.player_white ELSE g.player_black
  IN  IF playerAddress # NULL /\ otherColorAddress = playerAddress
        THEN "You cannot play against yourself"
      ELSE IF g.player_white = TRUE /\ g.player_black = TRUE /\ own = TRUE
        THEN "Player color already taken"
      ELSE NoError

\* the error joinGame throws, NoError when it goes on to the update
joinGameError(g, playerColor, playerAddress) ==
  LET otherColorAddress == IF playerColor = "white" THEN g.player_black_address
                                                    ELSE g.player_white_address
      own == IF playerColor = "white" THEN g.player_white ELSE g.player_black
  IN  IF g.status # "waiting" /\ g.status # "active" THEN "Cannot join game"
      ELSE IF playerAddress # NULL /\ otherColorAddress = playerAddress
        THEN "You cannot play against yourself"
      ELSE IF g.player_white = TRUE /\ g.player_black = TRUE /\ own = TRUE
        THEN "Player color already taken"
      ELSE NoError

\* the row after joinGame's update, at clock value t
joinGameRow(g, playerColor, playerAddress, t) ==
  LET bothPlayersJoined == IF playerColor = "white" THEN g.player_black = TRUE
                                                    ELSE g.player_white = TRUE
      g1 == IF playerColor = "white"
              THEN [g EXCEPT !.player_white = TRUE, !.player_white_address = playerAddress]
              ELSE [g EXCEPT !.player_black = TRUE, !.player_black_address = playerAddress]
      g2 == [g1 EXCEPT !.status = IF bothPlayersJoined THEN "active" ELSE "waiting",
                       !.escrow_status = IF bothPlayersJoined /\ g.wager_amount # 0
                                           THEN "active" ELSE g.escrow_status]
  IN  IF bothPlayersJoined THEN [g2 EXCEPT !.turn_started_at = t] ELSE g2

\* joinGame's update (lines 76-89) applied to the stored row `row` by a request
\* that read the row as g: only the listed columns are written
joinGameWrite(row, g, playerColor, playerAddress, t) ==
  LET bothPlayersJoined == IF playerColor = "white" THEN g.player_black = TRUE
                                                    ELSE g.player_white = TRUE
      r1 == IF playerColor = "white"
              THEN [row EXCEPT !.player_white = TRUE, !.player_white_address = playerAddress]
              ELSE [row EXCEPT !.player_black = TRUE, !.player_black_address = playerAddress]
      r2 == [r1 EXCEPT !.status = IF bothPlayersJoined THEN "active" ELSE "waiting",
                       !.escrow_status = IF bothPlayersJoined /\ g.wager_amount # 0
                                           THEN "active" ELSE g.escrow_status]
  IN  IF bothPlayersJoined THEN [r2 EXCEPT !.turn_started_at = t] ELSE r2

GameModel_joinGame_WriteFirst(g, playerColor, playerAddress, t) ==
  [ error |-> joinGameError(g, playerColor, playerAddress),
    row   |-> IF g.status # "waiting" /\ g.status # "active" THEN g
              ELSE joinGameRow(g, playerColor, playerAddress, t) ]

\* GameModel.joinGame: what it throws and the row it leaves
GameModel_joinGame(g, playerColor, playerAddress, t) ==
  LET err == joinGameError(g, playerColor, playerAddress)
  IN  [ error |-> err,
        row   |-> IF err = NoError THEN joinGameRow(g, playerColor, playerAddress, t)
                                   ELSE g ]

\* ------------------------------------------------------------- makeMove
makeMoveError_ValidateFirst(g, from, to, promotion) ==
  LET validation == isValidMove(g.board_state, from, to, g.current_turn, g.last_move)
      piece == g.board_state[from[1]][from[2]]
      isPromotion == toLowerCase(piece) = "p" /\ (to[1] = 0 \/ to[1] = 7)
  IN  IF ~validation.valid THEN validation.reason
      ELSE IF g.status # "active" THEN "Game not active"
      ELSE IF isPromotion /\ promotion = NULL THEN "Promotion piece required"
      ELSE NoError

\* the error makeMove throws before it writes, NoError when it goes on
makeMoveError(g, from, to, promotion) ==
  LET validation == isValidMove(g.board_state, from, to, g.current_turn, g.last_move)
      piece == g.board_state[from[1]][from[2]]
      isPromotion == toLowerCase(piece) = "p" /\ (to[1] = 0 \/ to[1] = 7)
  IN  IF g.status # "active" THEN "Game not active"
      ELSE IF ~validation.valid THEN validation.reason
      ELSE IF isPromotion /\ promotion = NULL THEN "Promotion piece required"
      ELSE NoError

capturedAfter_NoCapture(g, to, enPassant) ==
  [ white |-> g.captured_white, black |-> g.captured_black ]

capturedAfter_NoEnPassant(g, to, enPassant) ==
  LET targetPiece == g.board_state[to[1]][to[2]]
  IN  [ white |-> IF targetPiece # "." /\ targetPiece = toUpperCase(targetPiece)
                    THEN Append(g.captured_white, targetPiece) ELSE g.captured_white,
        black |-> IF targetPiece # "." /\ targetPiece # toUpperCase(targetPiece)
                    THEN Append(g.captured_black, targetPiece) ELSE g.captured_black ]

\* the captured_white / captured_black lists after the move (lines 218-243)
capturedAfter(g, to, enPassant) ==
  LET targetPiece == g.board_state[to[1]][to[2]]
      cw1 == IF targetPiece # "." /\ targetPiece = toUpperCase(targetPiece)
               THEN Append(g.captured_white, targetPiece) ELSE g.captured_white
      cb1 == IF targetPiece # "." /\ targetPiece # toUpperCase(targetPiece)
               THEN Append(g.captured_black, targetPiece) ELSE g.captured_black
      epRow == IF g.current_turn = "white" THEN to[1] + 1 ELSE to[1] - 1
      epPiece == IF enPassant THEN g.board_state[epRow][to[2]] ELSE "."
  IN  [ white |-> IF epPiece # "." /\ epPiece = toUpperCase(epPiece)
                    THEN Append(cw1, epPiece) ELSE cw1,
        black |-> IF epPiece # "." /\ epPiece # toUpperCase(epPiece)
                    THEN Append(cb1, epPiece) ELSE cb1 ]

\* status and winner from the termination flags (lines 260-269)
terminalOf(g, kingCaptured, checkmate, stalemate) ==
  [ newStatus |-> IF kingCaptured \/ checkmate THEN "finished"
                  ELSE IF stalemate THEN "finished" ELSE g.status,
    winner    |-> IF kingCaptured \/ checkmate THEN g.current_turn
                  ELSE IF stalemate THEN "draw" ELSE NULL ]

\* the record of values makeMove goes on to write
outcomeOf(newBoard, nextTurn, lm, check, checkmate, terminal, captured) ==
  [ newBoard    |-> newBoard,
    nextTurn    |-> nextTurn,
    last_move   |-> lm,
    isCheck     |-> check,
    isCheckmate |-> checkmate,
    newStatus   |-> terminal.newStatus,
    winner      |-> terminal.winner,
    captured_white |-> captured.white,
    captured_black |-> captured.black ]

\* the termination flags of the new position, a captured king first
\* (lines 244-258)
evaluateBoard_NoStalemate(g, newBoard, nextTurn, lm, captured) ==
  LET noMoves == ~hasLegalMoves(newBoard, nextTurn, lm)
  IN  outcomeOf(newBoard, nextTurn, lm, isKingInCheck(newBoard, nextTurn), noMoves,
                terminalOf(g, FALSE, noMoves, FALSE), captured)

evaluateBoard(g, newBoard, nextTurn, lm, captured) ==
  LET opponentKing == IF nextTurn = "white" THEN "K" ELSE "k"
      kingCaptured == ~ \E s \in Squares : newBoard[s[1]][s[2]] = opponentKing
  IN  IF kingCaptured
        THEN outcomeOf(newBoard, nextTurn, lm, FALSE, FALSE,
                       terminalOf(g, TRUE, FALSE, FALSE), captured)
        ELSE outcomeOf(newBoard, nextTurn, lm,
                       isKingInCheck(newBoard, nextTurn),
                       isCheckmate(newBoard, nextTurn, lm),
                       terminalOf(g, FALSE, isCheckmate(newBoard, nextTurn, lm),
                                  isStalemate(newBoard, nextTurn, lm)),
                       captured)

\* the values GameModel.makeMove computes for a move the engine found valid,
\* enPassant being the engine's verdict on it
moveOutcome(g, from, to, promotion, enPassant) ==
  evaluateBoard(g,
                makeMove(g.board_state, from, to, promotion, enPassant),
                Opposite(g.current_turn),
                [from |-> from, to |-> to, piece |-> g.board_state[from[1]][from[2]]],
                capturedAfter(g, to, enPassant))

\* the values GameModel.makeMove computes for a move it accepts
makeMoveOutcome(g, from, to, promotion) ==
  moveOutcome(g, from, to, promotion,
              isValidMove(g.board_state, from, to, g.current_turn, g.last_move).enPassant)

\* the games row and the moves rows after the writes of an accepted move
\* (lines 271-315), at clock value t
makeMoveWrites(g, log, from, to, promotion, t, o) ==
  [ error |-> NoError,
    row |-> [g EXCEPT !.board_state = o.newBoard,
                      !.current_turn = o.nextTurn,
                      !.last_move = o.last_move,
                      !.in_check = o.isCheck,
                      !.status = o.newStatus,
                      !.winner = o.winner,
                      !.captured_white = o.captured_white,
                      !.captured_black = o.captured_black,
                      !.turn_started_at = t,
                      !.move_count = g.move_count + 1],
    moves |-> Append(log,
       [ move_number       |-> g.move_count + 1,
         player            |-> g.current_turn,
         from_position     |-> from,
         to_position       |-> to,
         piece             |-> g.board_state[from[1]][from[2]],
         board_state_after |-> o.newBoard,
         is_check          |-> o.isCheck,
         is_checkmate      |-> o.isCheckmate,
         promotion         |-> promotion,
         created_at        |-> t ]),
    settle |-> o.newStatus = "finished" ]

\* GameModel.makeMove: what it throws, the games row and the moves rows it
\* leaves, and whether it dispatches _settleEscrow
GameModel_makeMove(g, log, from, to, promotion, t) ==
  IF makeMoveError(g, from, to, promotion) # NoError
    THEN [ error |-> makeMoveError(g, from, to, promotion),
           row |-> g, moves |-> log, settle |-> FALSE ]
    ELSE makeMoveWrites(g, log, from, to, promotion, t,
                        makeMoveOutcome(g, from, to, promotion))

\* GameModel.makeMove whose insert into moves fails (line 309): r is what the
\* call would have left; the update of games (lines 271-288) stays, no row is
\* appended and the update of move_count (311-314) is not reached
makeMoveInsertFails(r, g, log) ==
  [r EXCEPT !.error = "moves insert failed",
            !.row = [r.row EXCEPT !.move_count = g.move_count],
            !.moves = log]

\* ------------------------------------------- resign, draw offers, forfeit
\* resignGame naming the resigning colour as the winner
resignGameRow_SelfWins(g, playerColor) ==
  [g EXCEPT !.status = "finished", !.winner = playerColor]

\* the row GameModel.resignGame leaves
resignGameRow(g, playerColor) ==
  [g EXCEPT !.status = "finished", !.winner = Opposite(playerColor)]

offerDrawRow(g, playerColor) == [g EXCEPT !.draw_offer = playerColor]

\* acceptDraw leaving the offer in place
acceptDrawRow_KeepOffer(g) ==
  [g EXCEPT !.status = "finished", !.winner = "draw"]

\* the row GameModel.acceptDraw leaves
acceptDrawRow(g) ==
  [g EXCEPT !.status = "finished", !.winner = "draw", !.draw_offer = NULL]

\* forfeitTurn without the test of the match being active
forfeitTurnRow_NoStatusCheck(g, t) ==
  [g EXCEPT !.current_turn = Opposite(g.current_turn), !.turn_started_at = t]

forfeitTurnRow_NoFlip(g, t) ==
  IF g.status # "active" THEN g ELSE [g EXCEPT !.turn_started_at = t]

\* the row GameModel.forfeitTurn leaves, at clock value t
forfeitTurnRow(g, t) ==
  IF g.status # "active" THEN g
  ELSE [g EXCEPT !.current_turn = Opposite(g.current_turn), !.turn_started_at = t]

\* ---------------------------------------------------------------- requests
Colors == {"white", "black"}

Reply(op, error) == [op |-> op, error |-> error]

\* a move request <<from, to, promotion>>
Mv(fr, fc, tr, tc) == <<<<fr, fc>>, <<tr, tc>>, NULL>>
MvP(fr, fc, tr, tc, promotion) == <<<<fr, fc>>, <<tr, tc>>, promotion>>

\* the move requests offered to a match of the lifecycle specification
LobbyRequests ==
  { Mv(6, 4, 4, 4),    \* e2-e4
    Mv(1, 4, 3, 4),    \* e7-e5
    Mv(6, 3, 3, 3),    \* d2-d5 (no pawn move)
    Mv(7, 0, 6, 0) }   \* Ra1xa2 (own pawn)

\* the move requests offered to a match in play
PlayRequests ==
  { Mv(6, 5, 5, 5),    \* f2-f3
    Mv(6, 4, 4, 4),    \* e2-e4
    Mv(6, 3, 4, 3),    \* d2-d4
    Mv(4, 4, 3, 3),    \* e4xd5
    Mv(3, 4, 2, 3),    \* e5xd6
    Mv(6, 6, 5, 6),    \* g2-g3
    Mv(7, 4, 6, 4),    \* Ke1-e2
    Mv(7, 0, 6, 0),    \* Ra1xa2 (own pawn)
    Mv(7, 6, 7, 6),    \* Ng1-g1 (from = to)
    Mv(3, 3, 2, 3),    \* an empty square, or d5-d6
    Mv(1, 4, 3, 4),    \* e7-e5
    Mv(1, 3, 3, 3),    \* d7-d5
    Mv(0, 3, 4, 7),    \* Qd8-h4
    Mv(4, 7, 7, 4),    \* Qh4xe1
    Mv(0, 6, 2, 5),    \* Ng8-f6
    Mv(1, 6, 0, 7),    \* g7xh8 without a promotion piece
    MvP(1, 6, 0, 7, "q"),
    MvP(1, 6, 0, 5, "n"),
    Mv(6, 1, 7, 0),    \* b2xa1 without a promotion piece
    MvP(6, 1, 7, 0, "q"),
    MvP(6, 1, 7, 2, "n"),
    MvP(1, 6, 0, 7, "p"),   \* g7xh8 posted past the dialog, asking for a pawn
    MvP(6, 1, 7, 0, "k"),   \* b2xa1 posted past the dialog, asking for a king
    MvP(6, 4, 4, 4, "q"),   \* e2-e4 with a promotion piece it cannot use
    Mv(0, 2, 2, 4),    \* Qc8-e6
    Mv(0, 2, 1, 2) }   \* Qc8-c7

\* ------------------------------------------------------ matches in progress
\* A script is a sequence of steps: <<from, to, promotion>> is a makeMove
\* request, <<>> a clock expiry (forfeitTurn).  Replay runs the handlers on a
\* match along a script, one step per clock value from t on; a rejected step
\* ends the replay.
RECURSIVE Replay(_, _, _, _)
\* the replay after the makeMove step whose result is r
ReplayMove(g, log, script, t, r) ==
  IF r.error = NoError THEN Replay(r.row, r.moves, Tail(script), t + 1)
  ELSE [game |-> g, moves |-> log]

Replay(g, log, script, t) ==
  IF script = <<>> THEN [game |-> g, moves |-> log]
  ELSE IF Len(Head(script)) = 0
    THEN Replay(forfeitTurnRow(g, t), log, Tail(script), t + 1)
  ELSE ReplayMove(g, log, script, t,
                  GameModel_makeMove(g, log, Head(script)[1], Head(script)[2],
                                     Head(script)[3], t))

\* a free match both players have joined without a wallet, at clock value t
JoinedGame(t) ==
  GameModel_joinGame(
    GameModel_joinGame(createGame(0, NULL), "white", NULL, t).row,
    "black", NULL, t).row

\* the match a script leads to; its last step is taken at clock value 0
MatchAfter(script) ==
  Replay(JoinedGame(0 - Len(script)), <<>>, script, 1 - Len(script))

\* White's h-pawn walks to g7 while Black's clock expires each turn
WhitePawnScript ==
  << Mv(6, 7, 4, 7), <<>>, Mv(4, 7, 3, 7), <<>>, Mv(3, 7, 2, 7), <<>>,
     Mv(2, 7, 1, 6), <<>> >>

\* Black's a-pawn walks to b2 while White's clock expires each turn
BlackPawnScript ==
  << <<>>, Mv(1, 0, 3, 0), <<>>, Mv(3, 0, 4, 0), <<>>, Mv(4, 0, 5, 0), <<>>,
     Mv(5, 0, 6, 1), <<>> >>

\* 1.e3 a5 2.Qh5 Ra6 3.Qxa5 h5 4.h4 Rah6 5.Qxc7 f6 6.Qxd7+ Kf7 7.Qxb7 Qd3
\* 8.Qxb8 Qh7 9.Qxc8 Kg6, White to play (10.Qe6 stalemates)
StalemateScript ==
  << Mv(6, 4, 5, 4), Mv(1, 0, 3, 0), Mv(7, 3, 3, 7), Mv(0, 0, 2, 0),
     Mv(3, 7, 3, 0), Mv(1, 7, 3, 7), Mv(6, 7, 4, 7), Mv(2, 0, 2, 7),
     Mv(3, 0, 1, 2), Mv(1, 5, 2, 5), Mv(1, 2, 1, 3), Mv(0, 4, 1, 5),
     Mv(1, 3, 1, 1), Mv(0, 3, 5, 3), Mv(1, 1, 0, 1), Mv(5, 3, 1, 7),
     Mv(0, 1, 0, 2), Mv(1, 5, 2, 6) >>

\* 1.f3 e5 2.g4, Black to play (2...Qh4 mates)
FoolsMateScript == << Mv(6, 5, 5, 5), Mv(1, 4, 3, 4), Mv(6, 6, 4, 6) >>

\* 1.f3 e5 2.e4 Qh4+, White to play, in check
CheckScript == << Mv(6, 5, 5, 5), Mv(1, 4, 3, 4), Mv(6, 4, 4, 4), Mv(0, 3, 4, 7) >>

\* 1.e4 (Black's clock expires) 2.d4, Black to play
TwoPawnsScript == << Mv(6, 4, 4, 4), <<>>, Mv(6, 3, 4, 3) >>

\* 1.e4 (Black's clock expires) 2.e5 d5, White to play (3.exd6 en passant)
EnPassantScript == << Mv(6, 4, 4, 4), <<>>, Mv(4, 4, 3, 4), Mv(1, 3, 3, 3) >>

\* Black's a-pawn takes on a1 asking for a king, White answers Bc1-b2 and
\* Black's clock expires: White to play, Black with kings on e8 and a1
TwoKingsScript ==
  BlackPawnScript \o << MvP(6, 1, 7, 0, "k"), Mv(7, 2, 6, 1), <<>> >>

PlayScripts ==
  { <<>>, WhitePawnScript, BlackPawnScript, StalemateScript, FoolsMateScript,
    CheckScript, TwoPawnsScript, EnPassantScript, TwoKingsScript }

\* ------------------------------------------------------------------ actions
\* the request ends with result r: the reply, the row and the log it leaves
JoinGameDone(r) ==
  /\ now < MaxClock
  /\ response' = Reply("joinGame", r.error)
  /\ game' = r.row
  /\ now' = IF r.row.turn_started_at = now THEN now + 1 ELSE now
  /\ UNCHANGED <<moves, settling, aux>>

JoinGame(playerColor, playerAddress) ==
  JoinGameDone(GameModel_joinGame(game, playerColor, playerAddress, now))

MakeMoveDone(r) ==
  /\ now < MaxClock
  /\ response' = Reply("makeMove", r.error)
  /\ game' = r.row
  /\ moves' = r.moves
  /\ now' = IF r.row.turn_started_at = now THEN now + 1 ELSE now
  /\ settling' = IF r.settle THEN settling \cup {r.row.winner} ELSE settling
  /\ UNCHANGED aux

MakeMove(from, to, promotion) ==
  MakeMoveDone(GameModel_makeMove(game, moves, from, to, promotion, now))

ResignGame(playerColor) ==
  /\ game' = resignGameRow(game, playerColor)
  /\ settling' = settling \cup {Opposite(playerColor)}
  /\ response' = Reply("resignGame", NoError)
  /\ UNCHANGED <<moves, now, aux>>

OfferDraw(playerColor) ==
  /\ game' = offerDrawRow(game, playerColor)
  /\ response' = Reply("offerDraw", NoError)
  /\ UNCHANGED <<moves, now, settling, aux>>

AcceptDraw ==
  /\ game' = acceptDrawRow(game)
  /\ settling' = settling \cup {"draw"}
  /\ response' = Reply("acceptDraw", NoError)
  /\ UNCHANGED <<moves, now, aux>>

ForfeitTurn ==
  /\ now < MaxClock
  /\ game' = forfeitTurnRow(game, now)
  /\ now' = IF game.status = "active" THEN now + 1 ELSE now
  /\ response' = Reply("forfeitTurn", NoError)
  /\ UNCHANGED <<moves, settling, aux>>

\* ------------------------------------------------------ the match lifecycle
\* no request in flight, no timer, no match on the chain, nothing sent
AuxInit ==
  /\ joining = {}
  /\ inflight = {}
  /\ timers = NoTimer
  /\ chain = NoMatch
  /\ calls = <<>>

Init ==
  /\ \E w \in Wagers :
       game = createGame(w, IF w # 0 THEN "0xA" ELSE NULL)
  /\ moves = <<>>
  /\ now = 1
  /\ response = Reply("createGame", NoError)
  /\ settling = {}
  /\ AuxInit

Next ==
  \/ \E c \in Colors, a \in Addresses \cup {NULL} : JoinGame(c, a)
  \/ \E m \in LobbyRequests : MakeMove(m[1], m[2], m[3])
  \/ \E c \in Colors : ResignGame(c)
  \/ \E c \in Colors : OfferDraw(c)
  \/ AcceptDraw
  \/ ForfeitTurn

Spec == Init /\ [][Next]_vars

\* ------------------------------------------------- joins that overlap in time
\* joinGame up to its last check (lines 40-66): the request reads the row and
\* either throws or goes on to the update with what it has read
JoinRead(playerColor, playerAddress) ==
  /\ Cardinality(joining) < MaxJoining
  /\ IF joinGameError(game, playerColor, playerAddress) # NoError
       THEN /\ response' = Reply("joinGame", joinGameError(game, playerColor, playerAddress))
            /\ UNCHANGED joining
       ELSE /\ joining' = joining \cup
                   {[playerColor |-> playerColor, playerAddress |-> playerAddress,
                     game |-> game]}
            /\ UNCHANGED response
  /\ UNCHANGED <<game, moves, now, settling, inflight, timers, chain, calls>>

\* joinGame's update (lines 76-92) by a request that has read the row
JoinWrite(j) ==
  /\ now < MaxClock
  /\ game' = joinGameWrite(game, j.game, j.playerColor, j.playerAddress, now)
  /\ joining' = joining \ {j}
  /\ now' = IF game'.turn_started_at = now THEN now + 1 ELSE now
  /\ response' = Reply("joinGame", NoError)
  /\ UNCHANGED <<moves, settling, inflight, timers, chain, calls>>

NextJoin ==
  \/ \E c \in Colors, a \in Addresses \cup {NULL} : JoinRead(c, a)
  \/ \E j \in joining : JoinWrite(j)

SpecJoin == Init /\ [][NextJoin]_vars

\* ---------------------------------------------------------- a match in play
\* the stored match is the one a replay has left
StartFrom(start) == game = start.game /\ moves = start.moves

InitPlay ==
  /\ \E script \in PlayScripts : StartFrom(MatchAfter(script))
  /\ now = 1
  /\ response = Reply("joinGame", NoError)
  /\ settling = {}
  /\ AuxInit

NextPlay ==
  \/ \E m \in PlayRequests : MakeMove(m[1], m[2], m[3])
  \/ ForfeitTurn

SpecPlay == InitPlay /\ [][NextPlay]_vars

\* -------------------------------------------- a failing insert into moves
\* a makeMove request that passes validation and fails at the insert
MakeMoveInsertFails(from, to, promotion) ==
  /\ makeMoveError(game, from, to, promotion) = NoError
  /\ MakeMoveDone(makeMoveInsertFails(
                    GameModel_makeMove(game, moves, from, to, promotion, now),
                    game, moves))

NextLog ==
  \/ \E m \in PlayRequests : MakeMove(m[1], m[2], m[3])
  \/ ForfeitTurn
  \/ \E m \in PlayRequests : MakeMoveInsertFails(m[1], m[2], m[3])

SpecLog == InitPlay /\ [][NextLog]_vars

\* ------------------------------------- moves and forfeits that overlap in time
\* a request that has read `read` and goes on to write
Flight(op, arg, read) == [op |-> op, arg |-> arg, read |-> read]

\* makeMove's writes (lines 271-315) by a request that has computed w from
\* the row it read: the update lists these columns and no others
makeMoveCommit(row, w) ==
  [w EXCEPT !.row = [row EXCEPT !.board_state = w.row.board_state,
                                !.current_turn = w.row.current_turn,
                                !.last_move = w.row.last_move,
                                !.in_check = w.row.in_check,
                                !.status = w.row.status,
                                !.winner = w.row.winner,
                                !.captured_white = w.row.captured_white,
                                !.captured_black = w.row.captured_black,
                                !.turn_started_at = w.row.turn_started_at,
                                !.move_count = w.row.move_count]]

\* forfeitTurn's update (lines 371-380) by a request that has read g
forfeitTurnWrite(row, g, t) ==
  [row EXCEPT !.current_turn = Opposite(g.current_turn), !.turn_started_at = t]

\* makeMove up to its last check (lines 188-207)
MoveRead(from, to, promotion) ==
  /\ Cardinality(inflight) < MaxInflight
  /\ IF makeMoveError(game, from, to, promotion) # NoError
       THEN /\ response' = Reply("makeMove", makeMoveError(game, from, to, promotion))
            /\ UNCHANGED inflight
       ELSE /\ inflight' = inflight \cup
                   {Flight("makeMove", <<from, to, promotion>>, game)}
            /\ UNCHANGED response
  /\ UNCHANGED <<game, moves, now, settling, joining, timers, chain, calls>>

MoveWriteDone(f, r) ==
  /\ now < MaxClock
  /\ f.op = "makeMove"
  /\ inflight' = inflight \ {f}
  /\ response' = Reply("makeMove", NoError)
  /\ game' = r.row
  /\ moves' = r.moves
  /\ now' = now + 1
  /\ settling' = IF r.settle THEN settling \cup {r.row.winner} ELSE settling
  /\ UNCHANGED <<joining, timers, chain, calls>>

\* makeMove from its update on, by a request that has read the row
MoveWrite(f) ==
  MoveWriteDone(f,
    makeMoveCommit(game,
      makeMoveWrites(f.read, moves, f.arg[1], f.arg[2], f.arg[3], now,
                     makeMoveOutcome(f.read, f.arg[1], f.arg[2], f.arg[3]))))

\* forfeitTurn up to its check of the status (lines 368-369)
ForfeitRead ==
  /\ Cardinality(inflight) < MaxInflight
  /\ IF game.status # "active"
       THEN /\ response' = Reply("forfeitTurn", NoError)
            /\ UNCHANGED inflight
       ELSE /\ inflight' = inflight \cup {Flight("forfeitTurn", <<>>, game)}
            /\ UNCHANGED response
  /\ UNCHANGED <<game, moves, now, settling, joining, timers, chain, calls>>

\* forfeitTurn's update by a request that has read the row
ForfeitWrite(f) ==
  /\ now < MaxClock
  /\ f.op = "forfeitTurn"
  /\ inflight' = inflight \ {f}
  /\ response' = Reply("forfeitTurn", NoError)
  /\ game' = forfeitTurnWrite(game, f.read, now)
  /\ now' = now + 1
  /\ UNCHANGED <<moves, settling, joining, timers, chain, calls>>

\* resignGame and acceptDraw are one update each
OverlapResignGame(playerColor) ==
  /\ game' = resignGameRow(game, playerColor)
  /\ settling' = settling \cup {Opposite(playerColor)}
  /\ response' = Reply("resignGame", NoError)
  /\ UNCHANGED <<moves, now, joining, inflight, timers, chain, calls>>

OverlapAcceptDraw ==
  /\ game' = acceptDrawRow(game)
  /\ settling' = settling \cup {"draw"}
  /\ response' = Reply("acceptDraw", NoError)
  /\ UNCHANGED <<moves, now, joining, inflight, timers, chain, calls>>

\* the move requests that meet: e2-e4, d2-d4, e7-e5 and Qd8-h4
OverlapRequests == {Mv(6, 4, 4, 4), Mv(6, 3, 4, 3), Mv(1, 4, 3, 4), Mv(0, 3, 4, 7)}

\* a match just made active, or one a move away from mate
InitOverlap ==
  /\ \E script \in {<<>>, FoolsMateScript} : StartFrom(MatchAfter(script))
  /\ now = 1
  /\ response = Reply("joinGame", NoError)
  /\ settling = {}
  /\ AuxInit

NextOverlap ==
  \/ \E m \in OverlapRequests : MoveRead(m[1], m[2], m[3])
  \/ \E f \in inflight : MoveWrite(f)
  \/ ForfeitRead
  \/ \E f \in inflight : ForfeitWrite(f)
  \/ \E c \in Colors : OverlapResignGame(c)
  \/ OverlapAcceptDraw

SpecOverlap == InitOverlap /\ [][NextOverlap]_vars

\* ------------------------------------------------------------ the turn clock
\* TimerService.clearTimer: the timeout and the interval are cleared and the
\* entry is deleted
clearTimer(t) == [t EXCEPT !.entry = FALSE]

\* TimerService.startTimer: clears what was running and sets a new entry
startTimer(t) == [clearTimer(t) EXCEPT !.entry = TRUE]

restartAfterExpiry_Never(g) == FALSE

restartAfterExpiry_Always(g) == TRUE

\* the expiry handler starts the next countdown only for a match that its
\* forfeitTurn call returned as active
restartAfterExpiry(g) == g.status = "active"

\* what the request handlers do to the clock once the model call has returned
\* row: start it afresh for an active match, cancel it for a finished one
clockAfterRequest(t, row, error) ==
  IF error # NoError THEN t
  ELSE IF row.status = "active" THEN startTimer(t)
  ELSE IF row.status = "finished" THEN clearTimer(t)
  ELSE t

\* a request keeps one clock value free for an expiry handler in flight
ClockFree == now + (IF timers.handler THEN 1 ELSE 0) < MaxClock

ClockJoinGameDone(r) ==
  /\ ClockFree
  /\ response' = Reply("joinGame", r.error)
  /\ game' = r.row
  /\ now' = IF r.row.turn_started_at = now THEN now + 1 ELSE now
  /\ timers' = clockAfterRequest(timers, r.row, r.error)
  /\ UNCHANGED <<moves, settling, joining, inflight, chain, calls>>

ClockJoinGame(playerColor, playerAddress) ==
  ClockJoinGameDone(GameModel_joinGame(game, playerColor, playerAddress, now))

ClockMakeMoveDone(r) ==
  /\ ClockFree
  /\ response' = Reply("makeMove", r.error)
  /\ game' = r.row
  /\ moves' = r.moves
  /\ now' = IF r.row.turn_started_at = now THEN now + 1 ELSE now
  /\ settling' = IF r.settle THEN settling \cup {r.row.winner} ELSE settling
  /\ timers' = clockAfterRequest(timers, r.row, r.error)
  /\ UNCHANGED <<joining, inflight, chain, calls>>

ClockMakeMove(from, to, promotion) ==
  ClockMakeMoveDone(GameModel_makeMove(game, moves, from, to, promotion, now))

ClockResignGame(playerColor) ==
  /\ game' = resignGameRow(game, playerColor)
  /\ settling' = settling \cup {Opposite(playerColor)}
  /\ response' = Reply("resignGame", NoError)
  /\ timers' = clockAfterRequest(timers, game', NoError)
  /\ UNCHANGED <<moves, now, joining, inflight, chain, calls>>

ClockOfferDraw(playerColor) ==
  /\ game' = offerDrawRow(game, playerColor)
  /\ response' = Reply("offerDraw", NoError)
  /\ UNCHANGED <<moves, now, settling, aux>>

ClockAcceptDraw ==
  /\ game' = acceptDrawRow(game)
  /\ settling' = settling \cup {"draw"}
  /\ response' = Reply("acceptDraw", NoError)
  /\ timers' = clockAfterRequest(timers, game', NoError)
  /\ UNCHANGED <<moves, now, joining, inflight, chain, calls>>

\* the timeout of the running countdown fires: the handler clears the entry
\* and calls forfeitTurn
Expire ==
  /\ timers.entry
  /\ ~timers.handler
  /\ now < MaxClock
  /\ timers' = [clearTimer(timers) EXCEPT !.handler = TRUE]
  /\ UNCHANGED <<game, moves, now, response, settling, joining, inflight, chain, calls>>

\* forfeitTurn returns to the handler, which starts the next countdown or not
ExpiryForfeit ==
  /\ timers.handler
  /\ game' = forfeitTurnRow(game, now)
  /\ now' = IF game.status = "active" THEN now + 1 ELSE now
  /\ response' = Reply("forfeitTurn", NoError)
  /\ timers' = IF restartAfterExpiry(game')
                 THEN [startTimer(timers) EXCEPT !.handler = FALSE]
                 ELSE [timers EXCEPT !.handler = FALSE]
  /\ UNCHANGED <<moves, settling, joining, inflight, chain, calls>>

\* the move requests offered while the clock runs: the lobby's and Qd8-h4
ClockRequests == LobbyRequests \cup {Mv(0, 3, 4, 7)}

\* a new match, or one a move away from mate with its countdown running
InitClock ==
  \/ Init
  \/ /\ StartFrom(MatchAfter(FoolsMateScript))
     /\ now = 1
     /\ response = Reply("makeMove", NoError)
     /\ settling = {}
     /\ joining = {}
     /\ inflight = {}
     /\ timers = startTimer(NoTimer)
     /\ chain = NoMatch
     /\ calls = <<>>

NextClock ==
  \/ \E c \in Colors, a \in Addresses \cup {NULL} : ClockJoinGame(c, a)
  \/ \E m \in ClockRequests : ClockMakeMove(m[1], m[2], m[3])
  \/ \E c \in Colors : ClockResignGame(c)
  \/ \E c \in Colors : ClockOfferDraw(c)
  \/ ClockAcceptDraw
  \/ Expire
  \/ ExpiryForfeit

SpecClock == InitClock /\ [][NextClock]_vars

\* forfeitTurn's reply reaches the handler that waits for it
SpecClockFair == SpecClock /\ WF_vars(ExpiryForfeit)

\* ----------------------------------------------------------- the settlement
\* escrowService.DRAW_ADDRESS, the contract's DRAW
DRAW_ADDRESS == "0xdead"

\* ChessterEscrow.createMatch by sender with msg.value = value (a wager in
\* native ETH) at block time t: reverts when the match exists or no ETH is sent
createMatchReverts(m, sender, value) == m.createdAt # 0 \/ value = 0

createMatch(m, sender, value, t) ==
  IF createMatchReverts(m, sender, value) THEN m
  ELSE [m EXCEPT !.createdAt = t, !.status = PENDING, !.player1 = sender,
                 !.player2 = NULL, !.winner = NULL, !.wagerAmount = value,
                 !.totalStaked = value, !.stakedAmount[sender] = value]

\* ChessterEscrow.joinMatch by sender with msg.value = value
joinMatchReverts(m, sender, value) ==
  \/ m.createdAt = 0
  \/ m.status # PENDING
  \/ m.player2 # NULL
  \/ sender = m.player1
  \/ value # m.wagerAmount

joinMatch(m, sender, value) ==
  IF joinMatchReverts(m, sender, value) THEN m
  ELSE [m EXCEPT !.player2 = sender, !.status = ACTIVE,
                 !.totalStaked = @ + m.wagerAmount,
                 !.stakedAmount[sender] = m.wagerAmount]

\* ChessterEscrow._transfer to an account that accepts the payment
transfer(m, to, amount) == [m EXCEPT !.paid[to] = @ + amount]

adminFee_Tenth(total) == total \div 10

\* the admin cut of a decisive result
adminFee(total) == (total * ADMIN_BPS) \div BPS_DENOMINATOR

resolveMatchReverts_AnyCaller(m, caller, winner) ==
  \/ m.createdAt = 0
  \/ m.status # ACTIVE
  \/ winner \notin {DRAW_ADDRESS, m.player1, m.player2}

\* onlyCoordinator and the requirements of ChessterEscrow.resolveMatch
resolveMatchReverts(m, caller, winner) ==
  \/ caller # COORDINATOR
  \/ m.createdAt = 0
  \/ m.status # ACTIVE
  \/ winner \notin {DRAW_ADDRESS, m.player1, m.player2}

\* the payments of ChessterEscrow.resolveMatch
resolvePayments(m, winner) ==
  IF winner = DRAW_ADDRESS
    THEN transfer(transfer(m, m.player1, m.wagerAmount), m.player2, m.wagerAmount)
    ELSE transfer(transfer(m, winner, m.totalStaked - adminFee(m.totalStaked)),
                  COORDINATOR, adminFee(m.totalStaked))

\* ChessterEscrow.resolveMatch once its requirements hold
resolveMatch(m, winner) ==
  resolvePayments([m EXCEPT !.status = RESOLVED, !.winner = winner], winner)

refundAfterTimeoutReverts_NoWait(m, t) ==
  m.createdAt = 0 \/ m.status = RESOLVED \/ m.status = REFUNDED

\* the requirements of ChessterEscrow.refundAfterTimeout at block time t
refundAfterTimeoutReverts(m, t) ==
  \/ m.createdAt = 0
  \/ m.status = RESOLVED
  \/ m.status = REFUNDED
  \/ t < m.createdAt + Hour

refundPlayer(m, player) ==
  IF player # NULL THEN transfer(m, player, m.stakedAmount[player]) ELSE m

refundAfterTimeout_Again(m, t) ==
  IF m.createdAt = 0 \/ t < m.createdAt + Hour THEN m
  ELSE refundPlayer(refundPlayer([m EXCEPT !.status = REFUNDED], m.player1),
                    m.player2)

\* ChessterEscrow.refundAfterTimeout at block time t
refundAfterTimeout(m, t) ==
  IF refundAfterTimeoutReverts(m, t) THEN m
  ELSE refundPlayer(refundPlayer([m EXCEPT !.status = REFUNDED], m.player1),
                    m.player2)

\* one call of escrowService.resolveMatch: the address passed and whether a
\* receipt came back
ResolveCall(winner, ok) == [winner |-> winner, ok |-> ok]

settleStatus_NoWrite(g, s) == g

settleStatus_ClearsWinner(g, s) ==
  [g EXCEPT !.escrow_status = s, !.winner = NULL]

\* _settleEscrow's update of games: escrow_status alone
settleStatus(g, s) == [g EXCEPT !.escrow_status = s]

\* what _settleEscrow leaves: the row, the on-chain match, the calls sent and
\* the line it logs
Settled(row, m, cs, log) == [row |-> row, chain |-> m, calls |-> cs, log |-> log]

reconciledStatus_Never(m) == NULL

\* steps 2 of _settleEscrow: the on-chain match is closed already
reconciledStatus(m) ==
  IF m.status = RESOLVED THEN "settled"
  ELSE IF m.status = REFUNDED THEN "refunded"
  ELSE NULL

\* the address _settleEscrow passes on for winner
winnerAddressOf(g, winner) ==
  IF winner = "draw" THEN DRAW_ADDRESS
  ELSE IF winner = "white" THEN g.player_white_address
  ELSE g.player_black_address

\* step 5 of _settleEscrow with an address to pass: the call returns a
\* receipt when it is sent, mined (txOk) and not reverted
settleResolve(g, m, cs, winnerAddress, txOk) ==
  IF txOk /\ ~resolveMatchReverts(m, COORDINATOR, winnerAddress)
    THEN Settled([settleStatus(g, "settled") EXCEPT !.escrow_resolve_tx = "0xTx"],
                 resolveMatch(m, winnerAddress),
                 Append(cs, ResolveCall(winnerAddress, TRUE)),
                 "settled")
    ELSE Settled(settleStatus(g, "failed"), m,
                 Append(cs, ResolveCall(winnerAddress, FALSE)),
                 "resolveMatch FAILED")

GameModel_settleEscrow_ResolvesPending(g, m, cs, winner, getOk, txOk) ==
  IF g.wager_amount = 0 THEN Settled(g, m, cs, "free game")
  ELSE IF ~getOk THEN Settled(settleStatus(g, "failed"), m, cs, "getMatch failed")
  ELSE IF reconciledStatus(m) # NULL
    THEN Settled(settleStatus(g, reconciledStatus(m)), m, cs, "already closed")
  ELSE IF winnerAddressOf(g, winner) = NULL
    THEN Settled(settleStatus(g, "failed"), m, cs, "no address found for winner")
  ELSE settleResolve(g, m, cs, winnerAddressOf(g, winner), txOk)

GameModel_settleEscrow_NoFreeCheck(g, m, cs, winner, getOk, txOk) ==
  IF ~getOk THEN Settled(settleStatus(g, "failed"), m, cs, "getMatch failed")
  ELSE IF reconciledStatus(m) # NULL
    THEN Settled(settleStatus(g, reconciledStatus(m)), m, cs, "already closed")
  ELSE IF m.createdAt = 0
    THEN Settled(settleStatus(g, "failed"), m, cs, "not found on-chain")
  ELSE IF m.status = PENDING
    THEN Settled(settleStatus(g, "failed"), m, cs, "PENDING on-chain")
  ELSE IF winnerAddressOf(g, winner) = NULL
    THEN Settled(settleStatus(g, "failed"), m, cs, "no address found for winner")
  ELSE settleResolve(g, m, cs, winnerAddressOf(g, winner), txOk)

\* GameModel._settleEscrow on row g with on-chain match m; getOk: getMatch
\* returned the match
GameModel_settleEscrow(g, m, cs, winner, getOk, txOk) ==
  IF g.wager_amount = 0 THEN Settled(g, m, cs, "free game")
  ELSE IF ~getOk THEN Settled(settleStatus(g, "failed"), m, cs, "getMatch failed")
  ELSE IF reconciledStatus(m) # NULL
    THEN Settled(settleStatus(g, reconciledStatus(m)), m, cs, "already closed")
  ELSE IF m.createdAt = 0
    THEN Settled(settleStatus(g, "failed"), m, cs, "not found on-chain")
  ELSE IF m.status = PENDING
    THEN Settled(settleStatus(g, "failed"), m, cs, "PENDING on-chain")
  ELSE IF winnerAddressOf(g, winner) = NULL
    THEN Settled(settleStatus(g, "failed"), m, cs, "no address found for winner")
  ELSE settleResolve(g, m, cs, winnerAddressOf(g, winner), txOk)

SettleEscrowDone(winner, r) ==
  /\ Len(calls) < MaxCalls
  /\ settling' = settling \ {winner}
  /\ game' = r.row
  /\ chain' = r.chain
  /\ calls' = r.calls
  /\ response' = Reply("_settleEscrow", r.log)
  /\ UNCHANGED <<moves, now, joining, inflight, timers>>

\* a dispatched _settleEscrow call runs
SettleEscrow(winner, getOk, txOk) ==
  SettleEscrowDone(winner,
    GameModel_settleEscrow(game, chain, calls, winner, getOk, txOk))

\* the players' own transactions
ChainCreateMatch(sender) ==
  /\ chain' = createMatch(chain, sender, game.wager_amount, now)
  /\ UNCHANGED <<game, moves, now, response, settling, joining, inflight, timers, calls>>

ChainJoinMatch(sender) ==
  /\ chain' = joinMatch(chain, sender, game.wager_amount)
  /\ UNCHANGED <<game, moves, now, response, settling, joining, inflight, timers, calls>>

ChainRefundAfterTimeout ==
  /\ chain' = refundAfterTimeout(chain, chain.createdAt + Hour)
  /\ UNCHANGED <<game, moves, now, response, settling, joining, inflight, timers, calls>>

\* the move requests offered to a wagered match: Qd8-h4 and d2-d5
SettleRequests == {Mv(0, 3, 4, 7), Mv(6, 3, 3, 3)}

\* the match a move away from mate, wagered, both wallets recorded
WageredMatch(g) ==
  [g EXCEPT !.wager_amount = 1, !.escrow_status = "active",
            !.player_white_address = "0xA", !.player_black_address = "0xB"]

\* a new match, or a wagered one a move away from mate
InitSettle ==
  \/ Init
  \/ /\ game = WageredMatch(MatchAfter(FoolsMateScript).game)
     /\ moves = MatchAfter(FoolsMateScript).moves
     /\ now = 1
     /\ response = Reply("makeMove", NoError)
     /\ settling = {}
     /\ AuxInit

NextSettle ==
  \/ \E c \in Colors, a \in Addresses \cup {NULL} : JoinGame(c, a)
  \/ \E m \in SettleRequests : MakeMove(m[1], m[2], m[3])
  \/ \E c \in Colors : ResignGame(c)
  \/ AcceptDraw
  \/ \E a \in Addresses : ChainCreateMatch(a)
  \/ \E a \in Addresses : ChainJoinMatch(a)
  \/ ChainRefundAfterTimeout
  \/ \E w \in settling, getOk \in BOOLEAN, txOk \in BOOLEAN :
       SettleEscrow(w, getOk, txOk)

SpecSettle == InitSettle /\ [][NextSettle]_vars

\* a dispatched _settleEscrow call whose external calls return runs to its end
SettleEscrowRuns ==
  \E w \in settling, getOk \in BOOLEAN, txOk \in BOOLEAN :
    SettleEscrow(w, getOk, txOk)

SpecSettleFair == SpecSettle /\ WF_vars(SettleEscrowRuns)

\* ------------------------------------ settlement attempts overlapping in time
\* _settleEscrow gets as far as step 5 and calls escrowService.resolveMatch
settleSends(g, m, winner) ==
  /\ g.wager_amount # 0
  /\ reconciledStatus(m) = NULL
  /\ m.createdAt # 0
  /\ m.status # PENDING
  /\ winnerAddressOf(g, winner) # NULL

\* a dispatched _settleEscrow call runs up to its resolve call: getMatch
\* returns the match, and the call either ends in steps 1-4 or sends the
\* transaction and waits for it
SettleGet(winner) ==
  /\ Cardinality(inflight) < MaxInflight
  /\ IF settleSends(game, chain, winner)
       THEN /\ inflight' = inflight \cup {Flight("_settleEscrow", <<winner>>, chain)}
            /\ settling' = settling \ {winner}
            /\ UNCHANGED <<game, chain, calls, response>>
       ELSE /\ SettleEscrow(winner, TRUE, TRUE)
            /\ UNCHANGED inflight
  /\ UNCHANGED <<moves, now, joining, timers>>

SettleSendDone(f, r) ==
  /\ Len(calls) < MaxCalls
  /\ f.op = "_settleEscrow"
  /\ inflight' = inflight \ {f}
  /\ game' = r.row
  /\ chain' = r.chain
  /\ calls' = r.calls
  /\ response' = Reply("_settleEscrow", r.log)
  /\ UNCHANGED <<moves, now, settling, joining, timers>>

\* the transaction of a waiting call is mined, against the match as the
\* contract holds it by then, and the call writes escrow_status
SettleSend(f) ==
  SettleSendDone(f, settleResolve(game, chain, calls,
                                  winnerAddressOf(game, f.arg[1]), TRUE))

\* the wagered match a move away from mate; the players may have deposited
InitRace ==
  /\ game = WageredMatch(MatchAfter(FoolsMateScript).game)
  /\ moves = MatchAfter(FoolsMateScript).moves
  /\ now = 1
  /\ response = Reply("makeMove", NoError)
  /\ settling = {}
  /\ joining = {}
  /\ inflight = {}
  /\ timers = NoTimer
  /\ chain \in {NoMatch,
               joinMatch(createMatch(NoMatch, "0xA", game.wager_amount, now),
                         "0xB", game.wager_amount)}
  /\ calls = <<>>

NextRace ==
  \/ \E m \in SettleRequests : MakeMove(m[1], m[2], m[3])
  \/ \E c \in Colors : ResignGame(c)
  \/ AcceptDraw
  \/ \E a \in Addresses : ChainCreateMatch(a)
  \/ \E a \in Addresses : ChainJoinMatch(a)
  \/ ChainRefundAfterTimeout
  \/ \E w \in settling : SettleGet(w)
  \/ \E f \in inflight : SettleSend(f)

SpecRace == InitRace /\ [][NextRace]_vars

\* ------------------------------------------------------ the escrow contract
\* a transaction as the chain has executed it
Tx(op, sender, arg, reverted) ==
  [op |-> op, sender |-> sender, arg |-> arg,
   error |-> IF reverted THEN "reverted" ELSE NoError]

\* the ETH a player sends along
EscrowValues == {0, 1, 10, 15}

EscrowCreateMatch(sender, value) ==
  /\ chain' = createMatch(chain, sender, value, now)
  /\ response' = Tx("createMatch", sender, value,
                    createMatchReverts(chain, sender, value))
  /\ UNCHANGED <<game, moves, now, settling, joining, inflight, timers, calls>>

EscrowJoinMatch(sender, value) ==
  /\ chain' = joinMatch(chain, sender, value)
  /\ response' = Tx("joinMatch", sender, value,
                    joinMatchReverts(chain, sender, value))
  /\ UNCHANGED <<game, moves, now, settling, joining, inflight, timers, calls>>

EscrowResolveMatch(sender, winner) ==
  /\ chain' = IF resolveMatchReverts(chain, sender, winner) THEN chain
              ELSE resolveMatch(chain, winner)
  /\ response' = Tx("resolveMatch", sender, winner,
                    resolveMatchReverts(chain, sender, winner))
  /\ UNCHANGED <<game, moves, now, settling, joining, inflight, timers, calls>>

EscrowRefundAfterTimeout(sender) ==
  /\ chain' = refundAfterTimeout(chain, now)
  /\ response' = Tx("refundAfterTimeout", sender, NULL,
                    refundAfterTimeoutReverts(chain, now))
  /\ UNCHANGED <<game, moves, now, settling, joining, inflight, timers, calls>>

\* the block clock advances
EscrowTick ==
  /\ now < MaxClock
  /\ now' = now + 1
  /\ UNCHANGED <<game, moves, response, settling, aux>>

\* the contract deployed, no match created
InitEscrow ==
  /\ game = createGame(0, NULL)
  /\ moves = <<>>
  /\ now = 1
  /\ response = Tx("constructor", COORDINATOR, NULL, FALSE)
  /\ settling = {}
  /\ AuxInit

NextEscrow ==
  \/ \E a \in Accounts, v \in EscrowValues : EscrowCreateMatch(a, v)
  \/ \E a \in Accounts, v \in EscrowValues : EscrowJoinMatch(a, v)
  \/ \E a \in Accounts, w \in Accounts \cup {DRAW_ADDRESS, NULL} :
       EscrowResolveMatch(a, w)
  \/ \E a \in Accounts : EscrowRefundAfterTimeout(a)
  \/ EscrowTick

SpecEscrow == InitEscrow /\ [][NextEscrow]_vars

\* -------------------------------------------------------------- properties
\* the last row of the moves table
LastRecord == moves[Len(moves)]

\* the step handled a makeMove request and accepted it
MoveAccepted ==
  /\ response'.op = "makeMove"
  /\ response'.error = NoError
  /\ Len(moves') = Len(moves) + 1

\* the step handled a makeMove request and rejected it
MoveRejected == response'.op = "makeMove" /\ response'.error # NoError

OwnPiece(p, color) ==
  \/ color = "white" /\ p \in WhitePieces
  \/ color = "black" /\ p \in BlackPieces

\* C1: an accepted makeMove and a forfeitTurn on an Active match each leave
\* sideToMove the opposite colour of what it was; a rejected makeMove leaves
\* sideToMove as it was.
C1_TurnAlternation ==
  [][ /\ MoveAccepted => game'.current_turn = Opposite(game.current_turn)
      /\ (response'.op = "forfeitTurn" /\ game.status = "active")
           => game'.current_turn = Opposite(game.current_turn)
      /\ MoveRejected => game'.current_turn = game.current_turn ]_vars

\* White has moved, Black's clock has expired, and it is White's turn again
C1_Witness ==
  /\ response = Reply("forfeitTurn", NoError)
  /\ game.status = "active"
  /\ game.move_count = 1
  /\ game.current_turn = "white"

\* C2: status never returns from Active to Waiting, and once Finished it
\* stays Finished, whatever join, makeMove, resign, draw or forfeit follows.
C2_StatusForward ==
  [][ /\ game.status = "active" => game'.status # "waiting"
      /\ game.status = "finished" => game'.status = "finished" ]_vars

\* a join was attempted on a Finished match that had become Active before
C2_Witness ==
  /\ game.status = "finished"
  /\ game.player_white /\ game.player_black
  /\ response = Reply("joinGame", "Cannot join game")

\* C3: on a match that is not Active every makeMove request is rejected with
\* "Game not active" and changes nothing; a makeMove is accepted only on an
\* Active match.
C3_MoveNeedsActive ==
  [][ /\ game.status # "active" =>
           /\ \A m \in LobbyRequests \cup PlayRequests :
                GameModel_makeMove(game, moves, m[1], m[2], m[3], now).error
                  = "Game not active"
           /\ response'.op = "makeMove" =>
                /\ response'.error = "Game not active"
                /\ game' = game /\ moves' = moves
      /\ MoveAccepted => game.status = "active" ]_vars

\* a move was requested on a Finished match and rejected
C3_Witness ==
  /\ game.status = "finished"
  /\ response = Reply("makeMove", "Game not active")

\* C4: a makeMove or join rejected with a validation error leaves the games
\* row (board, sideToMove, status, winner, lastMove, inCheck, captured
\* tallies, player slots, moveCount) and the moves table as they were.
C4_RejectedChangesNothing ==
  [][ (response'.op \in {"makeMove", "joinGame"} /\ response'.error # NoError)
        => game' = game /\ moves' = moves /\ settling' = settling ]_vars

\* a wallet tried to join against itself and was rejected
C4_Witness ==
  /\ response = Reply("joinGame", "You cannot play against yourself")
  /\ game.status = "waiting"

\* the squares strictly between s and k on a rank, file or diagonal
Between(s, k) ==
  LET dr == k[1] - s[1]
      dc == k[2] - s[2]
      n  == IF Abs(dr) > Abs(dc) THEN Abs(dr) ELSE Abs(dc)
      sr == IF dr > 0 THEN 1 ELSE IF dr < 0 THEN -1 ELSE 0
      sc == IF dc > 0 THEN 1 ELSE IF dc < 0 THEN -1 ELSE 0
  IN  { <<s[1] + i * sr, s[2] + i * sc>> : i \in 1 .. (n - 1) }

\* the piece on square s attacks square k, by the rules of chess
Attacks(board, s, k) ==
  LET p  == board[s[1]][s[2]]
      dr == k[1] - s[1]
      dc == k[2] - s[2]
      clear == \A b \in Between(s, k) : board[b[1]][b[2]] = "."
      line == (dr = 0 \/ dc = 0) /\ s # k /\ clear
      diag == Abs(dr) = Abs(dc) /\ s # k /\ clear
  IN  CASE p = "P" -> dr = -1 /\ Abs(dc) = 1
        [] p = "p" -> dr = 1 /\ Abs(dc) = 1
        [] p \in {"N", "n"} -> {Abs(dr), Abs(dc)} = {1, 2}
        [] p \in {"B", "b"} -> diag
        [] p \in {"R", "r"} -> line
        [] p \in {"Q", "q"} -> line \/ diag
        [] p \in {"K", "k"} -> s # k /\ Abs(dr) <= 1 /\ Abs(dc) <= 1
        [] OTHER -> FALSE

\* the king of color (the one the engine looks at) stands on a square that a
\* piece of the other colour attacks
KingAttacked(board, color) ==
  LET k == kingPosOf(board, IF color = "white" THEN "K" ELSE "k")
  IN  /\ k # <<>>
      /\ \E s \in Squares :
           /\ OwnPiece(board[s[1]][s[2]], Opposite(color))
           /\ Attacks(board, s, k)

\* C5: isValidMove accepts a move of side S only if, on the board the move
\* gives (en passant removal included), no opposing piece attacks S's king;
\* so when S is in check every accepted move leaves S out of check.
C5_NoSelfCheck ==
  /\ \A from \in Squares, to \in Squares :
       LET v == isValidMove(game.board_state, from, to, game.current_turn,
                            game.last_move)
       IN  v.valid =>
             ~KingAttacked(makeMove(game.board_state, from, to, NULL, v.enPassant),
                           game.current_turn)
  /\ \A i \in 1 .. Len(moves) :
       ~KingAttacked(moves[i].board_state_after, moves[i].player)

\* a side that was in check has made a move and is out of check
C5_Witness ==
  /\ Len(moves) >= 2
  /\ moves[Len(moves) - 1].is_check
  /\ LastRecord.player # moves[Len(moves) - 1].player
  /\ response = Reply("makeMove", NoError)
  /\ KingAttacked(moves[Len(moves) - 1].board_state_after, LastRecord.player)
  /\ ~KingAttacked(game.board_state, LastRecord.player)

\* some (from, to) of all 4096 pairs is a legal move of color
AnyLegalMove(board, color, lastMove) ==
  \E from \in Squares, to \in Squares :
    isValidMove(board, from, to, color, lastMove).valid

\* the destination of the recorded move held a king on board
CapturesKing(board, record) ==
  board[record.to_position[1]][record.to_position[2]] \in {"K", "k"}

\* C6: after an accepted move that does not capture a king:
\* no legal move and in check => Finished, winner = mover; no legal move and
\* not in check => Finished, winner = draw; a legal move => Active, no winner.
\* Checkmate and stalemate are never both reported for one position.
C6_TerminalClassification ==
  [][ (MoveAccepted /\ ~CapturesKing(game.board_state, moves'[Len(moves')])) =>
        LET side == game'.current_turn
            legal == AnyLegalMove(game'.board_state, side, game'.last_move)
            check == isKingInCheck(game'.board_state, side)
        IN  /\ (~legal /\ check) =>
                 /\ game'.status = "finished"
                 /\ game'.winner = game.current_turn
                 /\ moves'[Len(moves')].is_checkmate
            /\ (~legal /\ ~check) =>
                 /\ game'.status = "finished"
                 /\ game'.winner = "draw"
                 /\ ~moves'[Len(moves')].is_checkmate
            /\ legal =>
                 /\ game'.status = "active"
                 /\ game'.winner = NULL
                 /\ ~moves'[Len(moves')].is_checkmate
            /\ ~ ( /\ isCheckmate(game'.board_state, side, game'.last_move)
                   /\ isStalemate(game'.board_state, side, game'.last_move) ) ]_vars

\* a move has stalemated the opponent
C6_Witness ==
  /\ response = Reply("makeMove", NoError)
  /\ game.status = "finished"
  /\ game.winner = "draw"
  /\ ~isKingInCheck(game.board_state, game.current_turn)
  /\ ~AnyLegalMove(game.board_state, game.current_turn, game.last_move)

\* the last committed action on the match was an accepted move
LastActionWasMove ==
  moves # <<>> /\ LastRecord.created_at = game.turn_started_at

\* C7: a pawn move diagonally forward onto an empty square is accepted only
\* if the immediately preceding action on the match was the opponent's
\* two-square pawn advance that landed beside the capturing pawn.
C7_EnPassantWindow ==
  [][ ( /\ MoveAccepted
        /\ toLowerCase(moves'[Len(moves')].piece) = "p"
        /\ moves'[Len(moves')].from_position[2] # moves'[Len(moves')].to_position[2]
        /\ game.board_state[moves'[Len(moves')].to_position[1]]
                           [moves'[Len(moves')].to_position[2]] = "." )
      => /\ LastActionWasMove
         /\ toLowerCase(game.last_move.piece) = "p"
         /\ ~OwnPiece(game.last_move.piece, game.current_turn)
         /\ Abs(game.last_move.to[1] - game.last_move.from[1]) = 2
         /\ game.last_move.to = << moves'[Len(moves')].from_position[1],
                                   moves'[Len(moves')].to_position[2] >> ]_vars

\* the letter of piece kind `kind` in colour `color`
PieceOf(kind, color) ==
  IF color = "black" THEN kind
  ELSE CASE kind = "q" -> "Q" [] kind = "r" -> "R" [] kind = "b" -> "B"
         [] kind = "n" -> "N" [] kind = "k" -> "K" [] kind = "p" -> "P"

\* C8: a pawn move reaching row 0 or row 7 is rejected with "Promotion piece
\* required" when no promotion piece comes with it; with a promotion piece
\* it is applied and the destination holds the requested piece kind in the
\* mover's colour, not a pawn.
C8_Promotion ==
  /\ game.status = "active" =>
       \A from \in Squares, to \in Squares :
         ( /\ toLowerCase(game.board_state[from[1]][from[2]]) = "p"
           /\ to[1] \in {0, 7}
           /\ isValidMove(game.board_state, from, to, game.current_turn,
                          game.last_move).valid )
         => LET r == GameModel_makeMove(game, moves, from, to, NULL, now)
            IN  /\ r.error = "Promotion piece required"
                /\ r.row = game /\ r.moves = moves
  /\ \A i \in 1 .. Len(moves) :
       ( /\ toLowerCase(moves[i].piece) = "p"
         /\ moves[i].to_position[1] \in {0, 7} )
       => LET dest == moves[i].board_state_after[moves[i].to_position[1]]
                                                [moves[i].to_position[2]]
          IN  /\ moves[i].promotion # NULL
              /\ dest = PieceOf(moves[i].promotion, moves[i].player)
              /\ dest \notin {"P", "p"}

\* C9: isValidMove rejects every (from, to) whose destination holds a piece
\* of the mover's colour, for either side to move, from = to included.
C9_NoSelfCapture ==
  \A turn \in Colors, from \in Squares, to \in Squares :
    OwnPiece(game.board_state[to[1]][to[2]], turn)
      => ~isValidMove(game.board_state, from, to, turn, game.last_move).valid

\* a capture of the mover's own piece was requested and rejected
C9_Witness ==
  /\ response = Reply("makeMove", "Cannot capture own piece")
  /\ game.status = "active"

\* C10: a join never succeeds for a colour slot that is already taken: a
\* join that succeeds fills a slot that was empty and leaves the identity
\* recorded for a slot that was taken as it was.
C10_JoinTakenSlotFails ==
  [][ (response'.op = "joinGame" /\ response'.error = NoError) =>
        /\ \/ ~game.player_white /\ game'.player_white
           \/ ~game.player_black /\ game'.player_black
        /\ game.player_white =>
             game'.player_white_address = game.player_white_address
        /\ game.player_black =>
             game'.player_black_address = game.player_black_address ]_vars

\* both colour slots are taken
SlotsFilled == game.player_white /\ game.player_black

\* C11: a join whose identity already occupies the other colour's slot is
\* rejected, and whenever both colour slots hold a recorded identity the two
\* identities differ.
C11_DistinctIdentities ==
  /\ \A c \in Colors, a \in Addresses :
       (a = IF c = "white" THEN game.player_black_address
                           ELSE game.player_white_address)
         => GameModel_joinGame(game, c, a, now).error # NoError
  /\ (game.player_white_address # NULL /\ game.player_black_address # NULL)
       => game.player_white_address # game.player_black_address

\* C12: the join that fills the second slot sets status = active; no state,
\* joins that overlap in time included, has both slots filled and status =
\* waiting, and none has status = active with an empty slot.
C12_ActiveIffBothSlots ==
  /\ (SlotsFilled => game.status # "waiting")
  /\ (game.status = "active" => SlotsFilled)

\* C13: resign(match, colour) sets status = finished and winner = the colour
\* opposite to the resigning colour, leaves the board and the side to move as
\* they were, and dispatches settlement with that winner.
C13_Resign ==
  [][ /\ \A c \in Colors :
           /\ resignGameRow(game, c).status = "finished"
           /\ resignGameRow(game, c).winner = Opposite(c)
           /\ resignGameRow(game, c).winner # c
           /\ resignGameRow(game, c).board_state = game.board_state
           /\ resignGameRow(game, c).current_turn = game.current_turn
      /\ response'.op = "resignGame" =>
           /\ \E c \in Colors : game' = resignGameRow(game, c)
           /\ game'.winner \in settling'
           /\ moves' = moves ]_vars

\* Black has resigned after White's first move
C13_Witness ==
  /\ response = Reply("resignGame", NoError)
  /\ game.status = "finished"
  /\ game.winner = "white"
  /\ game.move_count = 1
  /\ game.current_turn = "black"
  /\ "white" \in settling

\* C14: when a draw offer is recorded and acceptDraw is called, the match is
\* finished with winner = draw and no draw offer, and settlement is
\* dispatched with outcome draw.
C14_AcceptDraw ==
  [][ (response'.op = "acceptDraw" /\ game.draw_offer # NULL) =>
        /\ game'.status = "finished"
        /\ game'.winner = "draw"
        /\ game'.draw_offer = NULL
        /\ "draw" \in settling'
        /\ game'.board_state = game.board_state ]_vars

\* a draw has been agreed on an active match
C14_Witness ==
  /\ response = Reply("acceptDraw", NoError)
  /\ game.status = "finished"
  /\ game.winner = "draw"
  /\ game.draw_offer = NULL
  /\ game.turn_started_at # 0
  /\ settling = {"draw"}

\* C15: forfeitTurn on an active match flips the side to move and resets the
\* turn-start timestamp and leaves every other column and the move log as
\* they were; on a waiting or finished match it changes nothing.
C15_ForfeitFrame ==
  [][ response'.op = "forfeitTurn" =>
        /\ moves' = moves
        /\ IF game.status = "active"
             THEN /\ game' = [game EXCEPT !.current_turn = Opposite(game.current_turn),
                                           !.turn_started_at = now]
                  /\ game'.turn_started_at > game.turn_started_at
                  /\ game'.status = "active" /\ game'.winner = NULL
             ELSE game' = game ]_vars

\* the clock of a finished match has expired and nothing has changed
C15_Witness ==
  /\ response = Reply("forfeitTurn", NoError)
  /\ game.status = "finished"
  /\ game.winner # NULL

SettleStep == settling' # settling /\ settling' \subseteq settling

\* the outcome the running call was dispatched with
SettledWinner == CHOOSE w \in settling : w \notin settling'

\* the step ran _settleEscrow on a wagered match and getMatch returned
SettleRead ==
  /\ SettleStep
  /\ game.wager_amount # 0
  /\ response'.error # "getMatch failed"

C19_ResolveCall ==
  [][ (SettleRead /\ chain.status = ACTIVE)
        => /\ Len(calls') = Len(calls) + 1
           /\ calls'[Len(calls')].winner =
                (IF SettledWinner = "draw" THEN DRAW_ADDRESS
                 ELSE IF SettledWinner = "white" THEN game.player_white_address
                 ELSE game.player_black_address)
           /\ calls'[Len(calls')].ok => game'.escrow_status = "settled"
           /\ ~calls'[Len(calls')].ok => game'.escrow_status = "failed" ]_vars

\* C20: a settlement attempt, whatever its external calls do, changes nothing
\* of the match but escrow_status and escrow_resolve_tx and leaves the move
\* log alone; the resignGame, acceptDraw or finishing makeMove call that
\* dispatches it returns the finished match without error.
C20_OutcomeKept ==
  [][ /\ SettleStep
           => /\ game' = [game EXCEPT
                            !.escrow_status = game'.escrow_status,
                            !.escrow_resolve_tx = game'.escrow_resolve_tx]
              /\ moves' = moves
      /\ (chain' = chain /\ response'.op \in {"resignGame", "acceptDraw"})
           => /\ response'.error = NoError
              /\ game'.status = "finished"
              /\ game'.winner \in settling'
      /\ (chain' = chain /\ response'.op = "makeMove"
            /\ game.status = "active" /\ game'.status = "finished")
           => /\ response'.error = NoError
              /\ game'.winner \in settling' ]_vars

C20_Witness ==
  /\ response = Reply("_settleEscrow", "resolveMatch FAILED")
  /\ game.status = "finished"
  /\ game.winner = "black"
  /\ game.escrow_status = "failed"
  /\ Len(moves) = 4
  /\ LastRecord.is_checkmate

\* the squares an accepted move may change: its origin, its destination and
\* the square of a pawn taken en passant
TouchedBy(r) == {r.from_position, r.to_position,
                 <<r.from_position[1], r.to_position[2]>>}

\* C21: a makeMove request is validated against what the moves before it have
\* committed: an accepted move takes the next move number, moves the piece
\* that stands on its origin square and leaves every square it does not touch
\* as the last commit left it, so no two moves are accepted from one position
\* and no committed move is overwritten.
C21_MoveAtomic ==
  [][ MoveAccepted
        => /\ LastRecord'.move_number = Len(moves')
           /\ game'.move_count = Len(moves')
           /\ LastRecord'.piece
                = game.board_state[LastRecord'.from_position[1]]
                                  [LastRecord'.from_position[2]]
           /\ \A sq \in Squares \ TouchedBy(LastRecord') :
                game'.board_state[sq[1]][sq[2]] = game.board_state[sq[1]][sq[2]]
    ]_vars

\* the step is the update of a request that had read the row before
WriteStep(op) ==
  /\ inflight' # inflight
  /\ inflight' \subseteq inflight
  /\ response'.op = op

\* C22: a forfeit or a move that overlaps with another operation has the
\* effect it would have had alone: the update of a forfeit on an active match
\* flips sideToMove, and the update of a forfeit or of a move that meets a
\* finished match changes nothing.
C22_ExpirySerialised ==
  [][ /\ (WriteStep("forfeitTurn") /\ game.status = "active")
           => game'.current_turn = Opposite(game.current_turn)
      /\ ((WriteStep("forfeitTurn") \/ WriteStep("makeMove"))
            /\ game.status = "finished")
           => (game' = game /\ moves' = moves) ]_vars

\* C23: the contract records at most one resolution, and once every
\* settlement attempt has completed escrow_status is settled whenever the
\* on-chain match is Resolved.
C23_NoDoubleSettle ==
  /\ Cardinality({i \in DOMAIN calls : calls[i].ok}) <= 1
  /\ (settling = {} /\ inflight = {} /\ game.wager_amount # 0
        /\ chain.status = RESOLVED)
       => game.escrow_status = "settled"

\* the step executed a transaction calling op
TxStep(op) == response'.op = op /\ now' = now

\* what the step has paid to account a
PaidTo(a) == chain'.paid[a] - chain.paid[a]

\* C24: resolveMatch succeeds only for the coordinator, on an existing ACTIVE
\* match, with player1, player2 or the draw address as winner; a call that
\* reverts leaves the match, its winner and every balance as they were.
C24_ResolveGuard ==
  [][ TxStep("resolveMatch")
        => /\ response'.error = NoError
                => /\ response'.sender = COORDINATOR
                   /\ chain.createdAt # 0
                   /\ chain.status = ACTIVE
                   /\ response'.arg \in {chain.player1, chain.player2, DRAW_ADDRESS}
                   /\ chain'.status = RESOLVED
                   /\ chain'.winner = response'.arg
           /\ response'.error # NoError => chain' = chain ]_vars

C24_Witness ==
  /\ response.op = "resolveMatch"
  /\ response.sender # COORDINATOR
  /\ response.arg = chain.player1
  /\ response.error = "reverted"
  /\ chain.status = ACTIVE

C26_Refund ==
  [][ TxStep("refundAfterTimeout")
        => /\ now < chain.createdAt + Hour => response'.error = "reverted"
           /\ response'.error = "reverted" => chain' = chain
           /\ (chain.createdAt # 0 /\ now >= chain.createdAt + Hour
                 /\ chain.status \in {PENDING, ACTIVE})
                => /\ response'.error = NoError
                   /\ chain'.status = REFUNDED
                   /\ \A a \in Accounts :
                        PaidTo(a) = IF a \in {chain.player1, chain.player2}
                                      THEN chain.wagerAmount ELSE 0 ]_vars

C26_Witness ==
  /\ response.op = "refundAfterTimeout"
  /\ response.error = NoError
  /\ chain.status = REFUNDED
  /\ chain.player2 # NULL
  /\ chain.paid[chain.player1] = chain.wagerAmount
  /\ chain.paid[chain.player2] = chain.wagerAmount

\* everything the contract has paid out for the match
TotalPaid == chain.paid["0xA"] + chain.paid["0xB"] + chain.paid[COORDINATOR]

\* C27: once the match is RESOLVED or REFUNDED every createMatch, joinMatch,
\* resolveMatch and refundAfterTimeout for it reverts and changes nothing, and
\* what has been paid out for the match never exceeds its totalStaked.
C27_Absorbing ==
  /\ [][ chain.status \in {RESOLVED, REFUNDED}
           => /\ chain' = chain
              /\ now' = now => response'.error = "reverted" ]_vars
  /\ [](TotalPaid <= chain.totalStaked)

C27_Witness ==
  /\ chain.status = RESOLVED
  /\ response.op = "refundAfterTimeout"
  /\ response.error = "reverted"
  /\ now >= chain.createdAt + Hour
  /\ TotalPaid = chain.totalStaked

\* C28: an accepted move whose destination holds the opposing king finishes
\* the match with the mover as winner, and in_check and the move record's
\* is_check and is_checkmate are all false.
C28_KingCapture ==
  [][ (MoveAccepted /\ CapturesKing(game.board_state, LastRecord'))
        => /\ game'.status = "finished"
           /\ game'.winner = game.current_turn
           /\ ~game'.in_check
           /\ ~LastRecord'.is_check
           /\ ~LastRecord'.is_checkmate ]_vars

\* the step accepted a pawn's diagonal move onto an empty square
EnPassantStep ==
  /\ MoveAccepted
  /\ toLowerCase(LastRecord'.piece) = "p"
  /\ LastRecord'.from_position[2] # LastRecord'.to_position[2]
  /\ game.board_state[LastRecord'.to_position[1]][LastRecord'.to_position[2]] = "."

\* the square of the pawn a recorded en passant capture takes
CaptureSquare(r) == <<r.from_position[1], r.to_position[2]>>

\* C29: an accepted en passant capture puts the capturing pawn on the empty
\* destination square, empties its origin and the captured pawn's square (row
\* of the origin, column of the destination), leaves every other square as it
\* was and appends the captured pawn to the captured-piece list of its colour.
C29_EnPassantEffect ==
  [][ EnPassantStep
        => /\ game'.board_state[LastRecord'.to_position[1]]
                               [LastRecord'.to_position[2]] = LastRecord'.piece
           /\ game'.board_state[LastRecord'.from_position[1]]
                               [LastRecord'.from_position[2]] = "."
           /\ game'.board_state[CaptureSquare(LastRecord')[1]]
                               [CaptureSquare(LastRecord')[2]] = "."
           /\ \A sq \in Squares \ TouchedBy(LastRecord') :
                game'.board_state[sq[1]][sq[2]] = game.board_state[sq[1]][sq[2]]
           /\ game.board_state[CaptureSquare(LastRecord')[1]]
                              [CaptureSquare(LastRecord')[2]] \in {"P", "p"}
           /\ game.board_state[CaptureSquare(LastRecord')[1]]
                              [CaptureSquare(LastRecord')[2]] = "P"
                => /\ game'.captured_white = Append(game.captured_white, "P")
                   /\ game'.captured_black = game.captured_black
           /\ game.board_state[CaptureSquare(LastRecord')[1]]
                              [CaptureSquare(LastRecord')[2]] = "p"
                => /\ game'.captured_black = Append(game.captured_black, "p")
                   /\ game'.captured_white = game.captured_white ]_vars

\* White's e5 pawn has taken Black's d5 pawn en passant
C29_Witness ==
  /\ moves # <<>>
  /\ response = Reply("makeMove", NoError)
  /\ LastRecord.piece = "P"
  /\ LastRecord.from_position = <<3, 4>>
  /\ LastRecord.to_position = <<2, 3>>
  /\ game.board_state[2][3] = "P"
  /\ game.board_state[3][3] = "."
  /\ game.captured_black = <<"p">>

\* the number of squares of board that hold piece
CountOf(board, piece) ==
  Cardinality({sq \in Squares : board[sq[1]][sq[2]] = piece})

\* C30: in every reachable match state the board holds at most one white
\* king and at most one black king.
C30_OneKing ==
  /\ CountOf(game.board_state, "K") <= 1
  /\ CountOf(game.board_state, "k") <= 1

\* C31: for a match with no wager a settlement attempt returns at once: it
\* calls neither getMatch nor resolveMatch and writes nothing, and
\* escrow_status is unset in every reachable state of such a match.
C31_FreeNoOp ==
  /\ [][ (SettleStep /\ game.wager_amount = 0)
           => /\ response'.error = "free game"
              /\ game' = game
              /\ chain' = chain
              /\ calls' = calls ]_vars
  /\ [](game.wager_amount = 0 => (game.escrow_status = NULL /\ calls = <<>>))

\* a free match has finished and its settlement attempt has run
C31_Witness ==
  /\ response = Reply("_settleEscrow", "free game")
  /\ game.wager_amount = 0
  /\ game.status = "finished"
  /\ game.escrow_status = NULL
  /\ settling = {}

\* C32: a settlement attempt on a wagered match whose external match was
\* never created or is still PENDING sets escrow_status to failed and sends
\* no resolve call.
C32_NotDeposited ==
  [][ ( /\ SettleStep
        /\ game.wager_amount # 0
        /\ (chain.createdAt = 0 \/ chain.status = PENDING) )
        => /\ game'.escrow_status = "failed"
           /\ calls' = calls
           /\ chain' = chain ]_vars

\* the attempt found the external match created and not joined
C32_Witness ==
  /\ response = Reply("_settleEscrow", "PENDING on-chain")
  /\ game.status = "finished"
  /\ game.escrow_status = "failed"
  /\ chain.createdAt # 0
  /\ chain.status = PENDING
  /\ calls = <<>>

\* C33: once the match is finished its winner never changes, whatever
\* request comes later.
C33_WinnerFinal ==
  [][ game.status = "finished" => game'.winner = game.winner ]_vars

\* the step handled an acceptDraw request
AcceptDrawStep == response'.op = "acceptDraw"

\* C34: acceptDraw changes the match only when it is active and a draw offer
\* is recorded; otherwise it leaves status and winner as they were and
\* dispatches no settlement.
C34_DrawNeedsOffer ==
  [][ (AcceptDrawStep /\ ~(game.status = "active" /\ game.draw_offer # NULL))
        => /\ game'.status = game.status
           /\ game'.winner = game.winner
           /\ settling' = settling ]_vars

\* the number of squares of board that hold a piece of colour color
PiecesOf(board, color) ==
  Cardinality({sq \in Squares : OwnPiece(board[sq[1]][sq[2]], color)})

\* C35: an accepted move leaves the number of the mover's pieces on the
\* board as it was.
C35_OwnPiecesKept ==
  [][ MoveAccepted
        => PiecesOf(game'.board_state, game.current_turn)
             = PiecesOf(game.board_state, game.current_turn) ]_vars

\* C36: in every active state the stored in_check flag is true exactly when
\* the king of the side to move is attacked on the stored board.
C36_InCheckFlag ==
  game.status = "active"
    => (game.in_check <=> KingAttacked(game.board_state, game.current_turn))

\* C37: in every reachable state move_count is the number of rows of moves,
\* their move numbers are 1, 2, ... in order, and the stored board is the
\* board_state_after of the last row (the initial position when there is
\* none), also after a request whose insert into moves failed.
C37_LogConsistent ==
  /\ game.move_count = Len(moves)
  /\ \A i \in 1 .. Len(moves) : moves[i].move_number = i
  /\ game.board_state = IF moves = <<>> THEN initBoard
                        ELSE LastRecord.board_state_after

\* the pieces of colour color that list has recorded
TallyOf(list, color) ==
  Cardinality({i \in DOMAIN list : OwnPiece(list[i], color)})

\* a sequence that starts with all of sequence list
Extends(longer, list) ==
  /\ Len(longer) >= Len(list)
  /\ SubSeq(longer, 1, Len(list)) = list

\* C38: for each colour the pieces on the board plus the pieces recorded in
\* the captured lists number 16 in every reachable state, and a step only
\* ever appends to the captured lists.
C38_Conservation ==
  /\ [](\A c \in Colors :
          PiecesOf(game.board_state, c)
            + TallyOf(game.captured_white, c)
            + TallyOf(game.captured_black, c) = 16)
  /\ [][ /\ Extends(game'.captured_white, game.captured_white)
         /\ Extends(game'.captured_black, game.captured_black) ]_vars

\* the last accepted move took a piece: the board it left holds one piece
\* fewer of the other colour than the board before it, and the lists one more
C38_Witness ==
  /\ Len(moves) >= 2
  /\ response = Reply("makeMove", NoError)
  /\ LastRecord.created_at = game.turn_started_at
  /\ PiecesOf(LastRecord.board_state_after, Opposite(LastRecord.player))
       < PiecesOf(moves[Len(moves) - 1].board_state_after,
                  Opposite(LastRecord.player))
  /\ Len(game.captured_white) + Len(game.captured_black) >= 1
  /\ now > 1

\* C39: whenever escrow_status is settled the winner the contract has
\* recorded is the address of the match's winner: the draw address for a
\* draw, otherwise the wallet recorded for the winning colour.
C39_WinnerAgrees ==
  game.escrow_status = "settled"
    => chain.winner = (IF game.winner = "draw" THEN DRAW_ADDRESS
                       ELSE IF game.winner = "white" THEN game.player_white_address
                       ELSE game.player_black_address)

\* C40: once a wagered match is finished, the settlement attempt it has
\* dispatched ends and escrow_status becomes settled, refunded or failed,
\* and from then on it is never pending or active again.
C40_SettlementEnds ==
  /\ (game.wager_amount # 0 /\ game.status = "finished")
       ~> (game.escrow_status \in {"settled", "refunded", "failed"})
  /\ [][ game.escrow_status \in {"settled", "refunded", "failed"}
           => game'.escrow_status \in {"settled", "refunded", "failed"} ]_vars

\* an attempt on a finished wagered match has ended in failed
C40_Witness ==
  /\ game.wager_amount # 0
  /\ game.status = "finished"
  /\ settling = {}
  /\ response.op = "_settleEscrow"
  /\ game.escrow_status = "failed"

====
